---------------------------- MODULE Spec2Model ----------------------------
(***************************************************************************)
(* A model of the ECDSA engine (src/src/crypto/ecdsa.js), of the PublicKey *)
(* value type (src/src/publickey.js) and of the Base58Check encoding that  *)
(* src/test/encoding/base58check.js exercises, of BitcoinCashFlow.         *)
(*                                                                         *)
(* The curve is y^2 = x^3 + 7 over a prime field, as secp256k1 is, scaled  *)
(* down so that every scalar, digest and point can be enumerated: the      *)
(* field prime is 43 and the group has the prime order 31 (cofactor 1,     *)
(* N < P and P = 3 mod 4, as for secp256k1).  Buffers are sequences of     *)
(* "bytes" of ByteBase values, and the 32-byte width of scalars and        *)
(* digests is SIZE bytes, so that ByteBase^SIZE > FieldP > N holds as      *)
(* 256^32 > P > N does.  In text a byte is one digit of radix ByteBase.     *)
(*                                                                         *)
(* A JavaScript value that may be undefined is a sequence of length at     *)
(* most one: None is undefined, Some(v) is the value v.  A call that may   *)
(* throw returns a record whose err field is "" when it returned.          *)
(***************************************************************************)
EXTENDS Integers, Sequences, FiniteSets, TLC

VARIABLES
    pc,     \* the position of the scenario that a specification runs
    args,   \* the arguments that the scenario was started with
    ecdsa,  \* the ECDSA instance
    ret,    \* what the last call returned or threw
    ghost   \* history: [kGiven, first], see Spec and SpecRoundTrip;
            \* [badrs, tried] in SpecFind, [before] in SpecSet

vars == << pc, args, ecdsa, ret, ghost >>

None == << >>
Some(v) == << v >>
IsSome(o) == Len(o) = 1
Val(o) == o[1]
\* JavaScript's a || b for values that are undefined or objects
OrElse(a, b) == IF IsSome(a) THEN a ELSE b

-----------------------------------------------------------------------------
(* Field/Scalar arithmetic: crypto/bn.js, modelled from spec section 4.1.  *)

FieldP == 43
N == 31
ByteBase == 8
SIZE == 2

RECURSIVE Pow(_, _)
Pow(b, n) == IF n = 0 THEN 1 ELSE b * Pow(b, n - 1)

\* the multiplicative inverses modulo FieldP and modulo N, tabulated
InvTableP == [a \in 1 .. (FieldP - 1) |-> CHOOSE x \in 1 .. (FieldP - 1) : (a * x) % FieldP = 1]
InvTableN == [a \in 1 .. (N - 1) |-> CHOOSE x \in 1 .. (N - 1) : (a * x) % N = 1]

\* a.invm(N): defined when a is not 0 mod N (DivisionByZero otherwise)
Invertible(a) == a % N # 0
invm(a) == InvTableN[a % N]

\* BufferUtil.reverse / the byte reversal of BN.fromBuffer(.., {endian: 'little'})
RECURSIVE reverse(_)
reverse(buf) == IF buf = << >> THEN << >> ELSE Append(reverse(Tail(buf)), Head(buf))

\* BN.fromBuffer(buf): the big-endian value of the bytes
RECURSIVE fromBufferBE(_)
fromBufferBE(buf) ==
    IF buf = << >> THEN 0
    ELSE Head(buf) * Pow(ByteBase, Len(buf) - 1) + fromBufferBE(Tail(buf))

\* BN.fromBuffer(buf, opts): opts is the endian option, None when no opts
fromBuffer(buf, endian) ==
    IF endian = Some("little") THEN fromBufferBE(reverse(buf)) ELSE fromBufferBE(buf)

\* bn.toBuffer({size: SIZE}): big-endian, zero-padded to SIZE bytes
toBuffer(n) == [j \in 1 .. SIZE |-> (n \div Pow(ByteBase, SIZE - j)) % ByteBase]

-----------------------------------------------------------------------------
(* Curve point engine: crypto/point.js, modelled from spec section 4.2.    *)

Inf == [inf |-> TRUE, x |-> 0, y |-> 0]
Pt(x, y) == [inf |-> FALSE, x |-> x, y |-> y]

Gx == 2
Gy == 12
getG == Pt(Gx, Gy)

\* y^2 = x^3 + 7 mod P for coordinates that are field elements
OnCurve(p) ==
    /\ ~p.inf
    /\ p.x \in 0 .. (FieldP - 1)
    /\ p.y \in 0 .. (FieldP - 1)
    /\ (p.y * p.y) % FieldP = (p.x * p.x * p.x + 7) % FieldP

\* add(P, Q) with double(P) as the case P = Q
PointAdd(p, q) ==
    IF p.inf THEN q
    ELSE IF q.inf THEN p
    ELSE IF p.x = q.x /\ (p.y + q.y) % FieldP = 0 THEN Inf
    ELSE LET l == IF p = q
                  THEN (3 * p.x * p.x * InvTableP[(2 * p.y) % FieldP]) % FieldP
                  ELSE ((q.y - p.y) * InvTableP[(q.x - p.x) % FieldP]) % FieldP
             x3 == (l * l - p.x - q.x) % FieldP
         IN  Pt(x3, (l * (p.x - x3) - p.y) % FieldP)

\* scalarMul(P, k) by double-and-add, for k >= 0
RECURSIVE MulNat(_, _)
MulNat(p, k) ==
    IF k = 0 THEN Inf
    ELSE LET h == MulNat(p, k \div 2)
             d == PointAdd(h, h)
         IN  IF k % 2 = 1 THEN PointAdd(d, p) ELSE d

\* P.mul(k): every point of the group has order N
PointMul(p, k) == MulNat(p, k % N)

\* k*G, tabulated
GTable == [k \in 0 .. (N - 1) |-> MulNat(getG, k)]
MulG(k) == GTable[k % N]

\* the points of the curve
CurvePoints == {GTable[k] : k \in 1 .. (N - 1)}

\* Point.fromX(odd, x): the point with this x and this y-parity, from the square
\* root (x^3 + 7)^((P + 1) / 4) of the curve equation's right-hand side; there
\* is none (InvalidPoint) when x is no field element or the root is no root
RECURSIVE PowModP(_, _)
PowModP(b, n) == IF n = 0 THEN 1 ELSE (b * PowModP(b, n - 1)) % FieldP
SqrtRhs(x) == PowModP((x * x * x + 7) % FieldP, (FieldP + 1) \div 4)
HasPointAtX(x) ==
    /\ x \in 0 .. (FieldP - 1)
    /\ (SqrtRhs(x) * SqrtRhs(x)) % FieldP = (x * x * x + 7) % FieldP
fromX(odd, x) ==
    LET y == SqrtRhs(x)
    IN  IF (y % 2 = 1) = odd THEN Pt(x, y) ELSE Pt(x, FieldP - y)

\* point.validate(): succeeds on the finite points that satisfy the curve
\* equation; the point at infinity has no coordinates to satisfy it
validate(p) == OnCurve(p)

-----------------------------------------------------------------------------
(* Hash.sha256hmac(data, key): crypto/hash.js.  HMAC-SHA256 is abstracted  *)
(* by a keyed mixing function with a SIZE-byte output: a fixed function of *)
(* all the bytes of data and key, neither injective nor the identity.      *)

HmacMul == 11
HmacMod == 67

RECURSIVE HmacFold(_, _)
HmacFold(acc, data) ==
    IF data = << >> THEN acc
    ELSE HmacFold((acc * HmacMul + Head(data) + 1) % HmacMod, Tail(data))

sha256hmac(data, key) == toBuffer(HmacFold(fromBufferBE(key), data) % Pow(ByteBase, SIZE))

-----------------------------------------------------------------------------
(* Results of calls that may throw.                                        *)

Ret(v) == [err |-> "", val |-> v]
Threw(e, v) == [err |-> e, val |-> v]
Returned(res) == res.err = ""

-----------------------------------------------------------------------------
(* Text: buf.toString('hex') and Buffer.from(str, 'hex').  A string is a   *)
(* sequence of characters; a byte is written as one digit.                 *)

HexDigits == << "0", "1", "2", "3", "4", "5", "6", "7" >>
DigitValue(c) == (CHOOSE j \in 1 .. ByteBase : HexDigits[j] = c) - 1

RECURSIVE toHex(_)
toHex(buf) ==
    IF buf = << >> THEN << >>
    ELSE << HexDigits[Head(buf) + 1] >> \o toHex(Tail(buf))

\* decoding stops at the first character that is no digit
RECURSIVE fromHex(_)
fromHex(str) ==
    IF str = << >> \/ Head(str) \notin {HexDigits[j] : j \in 1 .. ByteBase} THEN << >>
    ELSE << DigitValue(Head(str)) >> \o fromHex(Tail(str))

\* new BN(str, 'hex'): the value of a string of digits
RECURSIVE BNfromHex(_)
BNfromHex(str) ==
    IF str = << >> THEN 0
    ELSE BNfromHex(SubSeq(str, 1, Len(str) - 1)) * ByteBase + DigitValue(str[Len(str)])

\* buf.slice(a, b) and buf.slice(a)
slice(buf, a, b) == SubSeq(buf, a + 1, IF b < Len(buf) THEN b ELSE Len(buf))
sliceFrom(buf, a) == SubSeq(buf, a + 1, Len(buf))

-----------------------------------------------------------------------------
(* PublicKey: src/src/publickey.js.  A key is [point, compressed, network]. *)
(* The data argument of the constructor is [type, v]: its kind and value.  *)

DefaultNetwork == "livenet"
NoPubKey == [point |-> Inf, compressed |-> TRUE, network |-> DefaultNetwork]
NoInfo == [point |-> Inf, compressed |-> TRUE, network |-> None]
Data(type, v) == [type |-> type, v |-> v]
\* the extra argument: {compressed, network}, each possibly undefined
Extra(compressed, network) == [compressed |-> compressed, network |-> network]

\* _.isUndefined(c) || c
CompressedOf(c) == IF IsSome(c) THEN Val(c) ELSE TRUE

_transformPrivateKey(privkey) ==
    Ret([point |-> MulG(privkey.bn), compressed |-> privkey.compressed,
         network |-> Some(privkey.network)])

_transformX(odd, x) ==
    IF HasPointAtX(x)
    THEN Ret([point |-> fromX(odd, x), compressed |-> TRUE, network |-> None])
    ELSE Threw("Invalid X", NoInfo)

\* strict is TRUE when the argument is undefined
_transformDER(buf, strict) ==
    LET first == IF Len(buf) > 0 THEN buf[1] ELSE -1
        xbuf == slice(buf, 1, 1 + SIZE)
        ybuf == slice(buf, 1 + SIZE, 1 + 2 * SIZE)
    IN  IF first = 4 \/ (~CompressedOf(strict) /\ (first = 6 \/ first = 7))
        THEN IF Len(xbuf) # SIZE \/ Len(ybuf) # SIZE \/ Len(buf) # 1 + 2 * SIZE
             THEN Threw("TypeError: Length of x and y must be 32 bytes", NoInfo)
             ELSE Ret([point |-> Pt(fromBufferBE(xbuf), fromBufferBE(ybuf)),
                       compressed |-> FALSE, network |-> None])
        ELSE IF first = 3
        THEN _transformX(TRUE, fromBufferBE(sliceFrom(buf, 1)))
        ELSE IF first = 2
        THEN _transformX(FALSE, fromBufferBE(sliceFrom(buf, 1)))
        ELSE Threw("TypeError: Invalid DER format public key", NoInfo)

RECURSIVE PublicKey(_, _)

\* returns the PublicKey built from the point (x, y), as the info
_transformObject(json) ==
    LET pk == PublicKey(Data("Point", Pt(BNfromHex(json.x), BNfromHex(json.y))),
                        Extra(json.compressed, None))
    IN  IF Returned(pk)
        THEN Ret([point |-> pk.val.point, compressed |-> pk.val.compressed,
                  network |-> Some(pk.val.network)])
        ELSE Threw(pk.err, NoInfo)

_classifyArgs(data, extra) ==
    LET info ==
            IF data.type = "Point"
            THEN Ret([point |-> data.v, compressed |-> CompressedOf(extra.compressed),
                      network |-> None])
            ELSE IF data.type = "object" /\ data.v.x # << >> /\ data.v.y # << >>
            THEN _transformObject(data.v)
            ELSE IF data.type = "string" THEN _transformDER(fromHex(data.v), None)
            ELSE IF data.type = "Buffer" THEN _transformDER(data.v, None)
            ELSE IF data.type = "PrivateKey" THEN _transformPrivateKey(data.v)
            ELSE Threw("TypeError: First argument is an unrecognized data format.", NoInfo)
    IN  IF Returned(info) /\ ~IsSome(info.val.network)
        THEN Ret([info.val EXCEPT !.network = extra.network])
        ELSE info

\* new PublicKey(data, extra) without the call of validate
PublicKeyUnvalidated(data, extra) ==
    IF data.type = "undefined"
    THEN Threw("First argument is required, please include public key data.", NoPubKey)
    ELSE IF data.type = "PublicKey" THEN Ret(data.v)
    ELSE LET info == _classifyArgs(data, extra)
         IN  IF ~Returned(info) THEN Threw(info.err, NoPubKey)
             ELSE Ret([point |-> info.val.point,
                       compressed |-> info.val.compressed,
                       network |-> Val(OrElse(info.val.network, Some(DefaultNetwork)))])

\* new PublicKey(data, extra)
PublicKey(data, extra) ==
    IF data.type = "undefined"
    THEN Threw("First argument is required, please include public key data.", NoPubKey)
    ELSE IF data.type = "PublicKey" THEN Ret(data.v)
    ELSE LET info == _classifyArgs(data, extra)
         IN  IF ~Returned(info) THEN Threw(info.err, NoPubKey)
             ELSE IF ~validate(info.val.point)
             THEN Threw("Invalid point", NoPubKey)
             ELSE Ret([point |-> info.val.point,
                       compressed |-> info.val.compressed,
                       network |-> Val(OrElse(info.val.network, Some(DefaultNetwork)))])

PublicKey_fromPrivateKey(privkey) ==
    LET info == _transformPrivateKey(privkey)
    IN  PublicKey(Data("Point", info.val.point),
                  Extra(Some(info.val.compressed), info.val.network))

PublicKey_fromBuffer(buf, strict) ==
    LET info == _transformDER(buf, strict)
    IN  IF Returned(info)
        THEN PublicKey(Data("Point", info.val.point), Extra(Some(info.val.compressed), None))
        ELSE Threw(info.err, NoPubKey)

PublicKey_fromPoint(point, compressed) ==
    PublicKey(Data("Point", point), Extra(compressed, None))

PublicKey_fromString(str) ==
    LET info == _transformDER(fromHex(str), None)
    IN  IF Returned(info)
        THEN PublicKey(Data("Point", info.val.point), Extra(Some(info.val.compressed), None))
        ELSE Threw(info.err, NoPubKey)

PublicKey_fromX(odd, x) ==
    LET info == _transformX(odd, x)
    IN  IF Returned(info)
        THEN PublicKey(Data("Point", info.val.point), Extra(Some(info.val.compressed), None))
        ELSE Threw(info.err, NoPubKey)

\* pk.toDER() taking the parity from the last byte of xbuf
toDERParityOfX(pk) ==
    LET xbuf == toBuffer(pk.point.x)
        ybuf == toBuffer(pk.point.y)
        odd == xbuf[Len(xbuf)] % 2
    IN  IF ~pk.compressed THEN << 4 >> \o xbuf \o ybuf
        ELSE IF odd # 0 THEN << 3 >> \o xbuf
        ELSE << 2 >> \o xbuf

\* pk.toDER(), pk.toBuffer()
toDER(pk) ==
    LET xbuf == toBuffer(pk.point.x)
        ybuf == toBuffer(pk.point.y)
        odd == ybuf[Len(ybuf)] % 2
    IN  IF ~pk.compressed THEN << 4 >> \o xbuf \o ybuf
        ELSE IF odd # 0 THEN << 3 >> \o xbuf
        ELSE << 2 >> \o xbuf

\* pk.toString()
PublicKey_toString(pk) == toHex(toDER(pk))

\* pk.toJSON()
toJSON(pk) ==
    [x |-> toHex(toBuffer(pk.point.x)), y |-> toHex(toBuffer(pk.point.y)),
     compressed |-> Some(pk.compressed)]

\* pk[field] = value where every property is writable
AssignedWritable(pk, field, value, strictMode) == Ret([pk EXCEPT ![field] = value])
\* pk[field] = value: JSUtil.defineImmutable defined point, compressed and
\* network as properties that are not writable, so the assignment leaves
\* the value in place, and throws when the assigning code is in strict mode
Assigned(pk, field, value, strictMode) ==
    IF field \in {"point", "compressed", "network"}
    THEN [err |-> IF strictMode THEN "TypeError" ELSE "", val |-> pk]
    ELSE Ret([pk EXCEPT ![field] = value])

-----------------------------------------------------------------------------
(* ECDSA: src/src/crypto/ecdsa.js.  An instance is the record of its       *)
(* fields.  hashbuf is [isBuffer, bytes]: a Buffer, or another value with  *)
(* a length; a private key is [bn, compressed, network]; a signature is    *)
(* [r, s, i, compressed].  A method returns [err, inst]: the error thrown, *)
(* if any, and the instance as the call left it.                           *)

MaxRatchet == 40
MaxBadrs == 12
\* the nonces randomK() is taken to draw are 1..MaxRandomK
MaxRandomK == 2

Buf(bytes) == [isBuffer |-> TRUE, bytes |-> bytes]
NotBuf(bytes) == [isBuffer |-> FALSE, bytes |-> bytes]
\* a PrivateKey; hasBn is FALSE for an object given as privkey that is no
\* PrivateKey: it has no bn and no publicKey
PrivateKey(bn, compressed) ==
    [bn |-> bn, compressed |-> compressed, network |-> DefaultNetwork, hasBn |-> TRUE]
NoBnKey == [PrivateKey(0, FALSE) EXCEPT !.hasBn = FALSE]
\* privkey.publicKey, privkey.toPublicKey()
publicKey(privkey) == PublicKey_fromPrivateKey(privkey).val
\* new Signature({r, s, compressed})
Signature(r, s, compressed) == [r |-> r, s |-> s, i |-> None, compressed |-> compressed]

\* new ECDSA()
NewECDSA ==
    [hashbuf |-> None, endian |-> None, privkey |-> None, pubkey |-> None,
     sig |-> None, k |-> None, verified |-> None]
\* the argument of set: every field undefined unless given
NoObj == NewECDSA

\* obj.verified || this.verified: false is falsy
set(inst, obj) ==
    LET privkey == OrElse(obj.privkey, inst.privkey)
    IN  [hashbuf |-> OrElse(obj.hashbuf, inst.hashbuf),
         endian |-> OrElse(obj.endian, inst.endian),
         privkey |-> privkey,
         pubkey |-> OrElse(obj.pubkey,
                           IF IsSome(privkey)
                           THEN IF Val(privkey).hasBn THEN Some(publicKey(Val(privkey)))
                                ELSE None
                           ELSE inst.pubkey),
         sig |-> OrElse(obj.sig, inst.sig),
         k |-> OrElse(obj.k, inst.k),
         verified |-> IF obj.verified = Some(TRUE) THEN obj.verified ELSE inst.verified]


\* the loop of deterministicK: the value T it ends with, or -1 when it has
\* not ended within MaxRatchet rounds
RECURSIVE Ratchet(_, _, _, _)
RatchetNext(k1, v, i, badrs) ==
    Ratchet(k1, sha256hmac(sha256hmac(v, k1), k1), i + 1, badrs)
Ratchet(k, v, i, badrs) ==
    IF i < badrs \/ ~(fromBufferBE(v) < N /\ fromBufferBE(v) > 0)
    THEN IF i >= MaxRatchet THEN -1
         ELSE RatchetNext(sha256hmac(v \o << 0 >>, k), v, i, badrs)
    ELSE fromBufferBE(v)

\* deterministicK(badrs), line by line: x is the private scalar's buffer and
\* hashbuf the digest in big-endian byte order
DetK4(k, v, badrs) == Ratchet(k, sha256hmac(sha256hmac(v, k), k), 0, badrs)
DetK3(k, v, x, hashbuf, badrs) ==
    DetK4(sha256hmac(v \o << 1 >> \o x \o hashbuf, k), v, badrs)
DetK2(k, v, x, hashbuf, badrs) == DetK3(k, sha256hmac(v, k), x, hashbuf, badrs)
DetK1(k, v, x, hashbuf, badrs) ==
    DetK2(sha256hmac(v \o << 0 >> \o x \o hashbuf, k), v, x, hashbuf, badrs)

\* deterministicK(badrs): the instance with k set
deterministicK(inst, badrs) ==
    [inst EXCEPT !.k =
        Some(DetK1([j \in 1 .. SIZE |-> 0], [j \in 1 .. SIZE |-> 1],
                   toBuffer(Val(inst.privkey).bn),
                   IF inst.endian = Some("little")
                   THEN reverse(Val(inst.hashbuf).bytes)
                   ELSE Val(inst.hashbuf).bytes,
                   badrs))]

\* the constant of toLowS: floor(N / 2)
LowSBound == 15
\* toLowS() with a constant that is one too high
toLowSLate(s) == IF s > LowSBound + 1 THEN N - s ELSE s
toLowS(s) == IF s > LowSBound THEN N - s ELSE s

\* r and s of _findSignature for the nonce k
SigR(k) == MulG(k).x % N
SigS(k, d, e) == (invm(k) * (e + d * SigR(k))) % N

\* the do-while loop of _findSignature from its round badrs on:
\* [err, inst, r, s]; G.mul(k) has no x when it is the point at infinity
RECURSIVE FindLoop(_, _, _, _)
\* a round of _findSignature whose while condition tests r only
FindRoundTestsR(inst1, k, badrs, d, e) ==
    IF k = -1 \/ badrs >= MaxBadrs
    THEN [err |-> "unbounded", inst |-> inst1, r |-> 0, s |-> 0]
    ELSE IF MulG(k).inf
    THEN [err |-> "TypeError", inst |-> inst1, r |-> 0, s |-> 0]
    ELSE IF SigR(k) <= 0
    THEN FindLoop(inst1, badrs + 1, d, e)
    ELSE [err |-> "", inst |-> inst1, r |-> SigR(k), s |-> SigS(k, d, e)]
FindRound(inst1, k, badrs, d, e) ==
    IF k = -1 \/ badrs >= MaxBadrs
    THEN [err |-> "unbounded", inst |-> inst1, r |-> 0, s |-> 0]
    ELSE IF MulG(k).inf
    THEN [err |-> "TypeError", inst |-> inst1, r |-> 0, s |-> 0]
    ELSE IF SigR(k) <= 0 \/ SigS(k, d, e) <= 0
    THEN FindLoop(inst1, badrs + 1, d, e)
    ELSE [err |-> "", inst |-> inst1, r |-> SigR(k), s |-> SigS(k, d, e)]
FindK(inst1, badrs, d, e) == FindRound(inst1, Val(inst1.k), badrs, d, e)
FindLoop(inst, badrs, d, e) ==
    FindK(IF ~IsSome(inst.k) \/ badrs > 0 THEN deterministicK(inst, badrs) ELSE inst,
          badrs, d, e)

LowS(found) == [found EXCEPT !.s = toLowS(found.s)]
_findSignature(inst, d, e) == LowS(FindLoop(inst, 0, d, e))

IsBuffer32(hashbuf) ==
    IsSome(hashbuf) /\ Val(hashbuf).isBuffer /\ Len(Val(hashbuf).bytes) = SIZE

\* the end of sign(): obj is what _findSignature returned or threw
Signed(inst, obj) ==
    IF obj.err # "" THEN [err |-> obj.err, inst |-> obj.inst]
    ELSE IF ~IsSome(inst.pubkey) THEN [err |-> "TypeError", inst |-> obj.inst]
    ELSE [err |-> "",
          inst |-> [obj.inst EXCEPT
              !.sig = Some(Signature(obj.r, obj.s, Some(Val(inst.pubkey).compressed)))]]

sign(inst) ==
    IF ~IsSome(inst.privkey) THEN [err |-> "TypeError", inst |-> inst]
    ELSE IF ~IsSome(inst.hashbuf) \/ ~Val(inst.privkey).hasBn
    THEN [err |-> "InvalidState", inst |-> inst]
    ELSE IF ~IsBuffer32(inst.hashbuf) THEN [err |-> "InvalidState", inst |-> inst]
    ELSE Signed(inst, _findSignature(inst, Val(inst.privkey).bn,
                                     fromBuffer(Val(inst.hashbuf).bytes, inst.endian)))

\* randomK() with the value k that the random source gave, then sign()
signRandomK(inst, k) == sign([inst EXCEPT !.k = Some(k)])

\* the point p = u1*G + u2*Q of sigError
SigPoint(e, r, sinv, Q) == PointAdd(MulG((sinv * e) % N), PointMul(Q, (sinv * r) % N))

\* the end of sigError() without the comparison of p's x with r
SigPointErrorInfinityOnly(p, r) ==
    IF p.inf THEN Ret("p is infinity") ELSE Ret("")

\* the end of sigError(), from the point p on
SigPointError(p, r) ==
    IF p.inf THEN Ret("p is infinity")
    ELSE IF p.x % N # r THEN Ret("Invalid signature")
    ELSE Ret("")

\* sigError() testing the range of r only
sigErrorRangeOfR(inst) ==
    IF ~IsBuffer32(inst.hashbuf) THEN Ret("hashbuf must be a 32 byte buffer")
    ELSE IF ~IsSome(inst.sig) THEN Threw("TypeError", "")
    ELSE IF ~(Val(inst.sig).r > 0 /\ Val(inst.sig).r < N)
    THEN Ret("r and s not in range")
    ELSE IF ~Invertible(Val(inst.sig).s) THEN Threw("DivisionByZero", "")
    ELSE IF ~IsSome(inst.pubkey) THEN Threw("TypeError", "")
    ELSE SigPointError(SigPoint(fromBuffer(Val(inst.hashbuf).bytes, inst.endian),
                                Val(inst.sig).r, invm(Val(inst.sig).s),
                                Val(inst.pubkey).point),
                       Val(inst.sig).r)

\* sigError() reading the digest as big-endian whatever endian is
sigErrorBigEndian(inst) ==
    IF ~IsBuffer32(inst.hashbuf) THEN Ret("hashbuf must be a 32 byte buffer")
    ELSE IF ~IsSome(inst.sig) THEN Threw("TypeError", "")
    ELSE IF \/ ~(Val(inst.sig).r > 0 /\ Val(inst.sig).r < N)
            \/ ~(Val(inst.sig).s > 0 /\ Val(inst.sig).s < N)
    THEN Ret("r and s not in range")
    ELSE IF ~Invertible(Val(inst.sig).s) THEN Threw("DivisionByZero", "")
    ELSE IF ~IsSome(inst.pubkey) THEN Threw("TypeError", "")
    ELSE SigPointError(SigPoint(fromBufferBE(Val(inst.hashbuf).bytes),
                                Val(inst.sig).r, invm(Val(inst.sig).s),
                                Val(inst.pubkey).point),
                       Val(inst.sig).r)

\* sigError() refusing a signature whose s is in the high half
sigErrorLowS(inst) ==
    IF ~IsBuffer32(inst.hashbuf) THEN Ret("hashbuf must be a 32 byte buffer")
    ELSE IF ~IsSome(inst.sig) THEN Threw("TypeError", "")
    ELSE IF \/ ~(Val(inst.sig).r > 0 /\ Val(inst.sig).r < N)
            \/ ~(Val(inst.sig).s > 0 /\ Val(inst.sig).s <= LowSBound)
    THEN Ret("r and s not in range")
    ELSE IF ~Invertible(Val(inst.sig).s) THEN Threw("DivisionByZero", "")
    ELSE IF ~IsSome(inst.pubkey) THEN Threw("TypeError", "")
    ELSE SigPointError(SigPoint(fromBuffer(Val(inst.hashbuf).bytes, inst.endian),
                                Val(inst.sig).r, invm(Val(inst.sig).s),
                                Val(inst.pubkey).point),
                       Val(inst.sig).r)

\* sigError(): [err, val], val the string returned, "" for false
sigError(inst) ==
    IF ~IsBuffer32(inst.hashbuf) THEN Ret("hashbuf must be a 32 byte buffer")
    ELSE IF ~IsSome(inst.sig) THEN Threw("TypeError", "")
    ELSE IF \/ ~(Val(inst.sig).r > 0 /\ Val(inst.sig).r < N)
            \/ ~(Val(inst.sig).s > 0 /\ Val(inst.sig).s < N)
    THEN Ret("r and s not in range")
    ELSE IF ~Invertible(Val(inst.sig).s) THEN Threw("DivisionByZero", "")
    ELSE IF ~IsSome(inst.pubkey) THEN Threw("TypeError", "")
    ELSE SigPointError(SigPoint(fromBuffer(Val(inst.hashbuf).bytes, inst.endian),
                                Val(inst.sig).r, invm(Val(inst.sig).s),
                                Val(inst.pubkey).point),
                       Val(inst.sig).r)

\* the end of verify(): res is what sigError returned or threw
Verified(inst, res) ==
    IF ~Returned(res) THEN [err |-> res.err, inst |-> inst]
    ELSE [err |-> "", inst |-> [inst EXCEPT !.verified = Some(res.val = "")]]

verify(inst) == Verified(inst, sigError(inst))

\* Q = r^-1 (sR - eG)
RecoverQ(R, e, r, s) == PointMul(PointAdd(PointMul(R, s), MulG((0 - e) % N)), invm(r))

\* the end of toPublicKey(), from the point R on
Recovered(R, e, sig) ==
    IF ~PointMul(R, N).inf THEN Threw("nR is not a valid curve point", NoPubKey)
    ELSE IF ~Invertible(sig.r) THEN Threw("DivisionByZero", NoPubKey)
    ELSE PublicKey_fromPoint(RecoverQ(R, e, sig.r, sig.s), sig.compressed)

\* toPublicKey() for the recovery id i and the candidate x
RecoverAt(inst, i, x) ==
    IF ~IsSome(inst.hashbuf) THEN Threw("TypeError", NoPubKey)
    ELSE IF ~HasPointAtX(x) THEN Threw("Invalid X", NoPubKey)
    ELSE Recovered(fromX(i % 2 = 1, x), fromBufferBE(Val(inst.hashbuf).bytes), Val(inst.sig))

\* toPublicKey() accepting the recovery ids 0 to 4
toPublicKeyUpTo4(inst) ==
    IF ~IsSome(inst.sig) THEN Threw("TypeError", NoPubKey)
    ELSE IF Val(inst.sig).i \notin {Some(0), Some(1), Some(2), Some(3), Some(4)}
    THEN Threw("i must be equal to 0, 1, 2, or 3", NoPubKey)
    ELSE RecoverAt(inst, Val(Val(inst.sig).i),
                   IF Val(Val(inst.sig).i) \div 2 >= 1 THEN Val(inst.sig).r + N
                   ELSE Val(inst.sig).r)

\* toPublicKey() taking x = r for every recovery id
toPublicKeyFirstKey(inst) ==
    IF ~IsSome(inst.sig) THEN Threw("TypeError", NoPubKey)
    ELSE IF Val(inst.sig).i \notin {Some(0), Some(1), Some(2), Some(3)}
    THEN Threw("i must be equal to 0, 1, 2, or 3", NoPubKey)
    ELSE RecoverAt(inst, Val(Val(inst.sig).i), Val(inst.sig).r)

\* toPublicKey(): [err, val], val the recovered PublicKey
toPublicKey(inst) ==
    IF ~IsSome(inst.sig) THEN Threw("TypeError", NoPubKey)
    ELSE IF Val(inst.sig).i \notin {Some(0), Some(1), Some(2), Some(3)}
    THEN Threw("i must be equal to 0, 1, 2, or 3", NoPubKey)
    ELSE RecoverAt(inst, Val(Val(inst.sig).i),
                   IF Val(Val(inst.sig).i) \div 2 = 1 THEN Val(inst.sig).r + N
                   ELSE Val(inst.sig).r)

WithI(inst, i) == [inst EXCEPT !.sig = Some([Val(inst.sig) EXCEPT !.i = i])]

\* the loop of calci from the candidate i on
RECURSIVE CalciLoop(_, _)
\* calci letting the error of a candidate out instead of trying the next one
CalciTryPropagates(inst1, i, Qprime) ==
    IF ~Returned(Qprime) THEN [err |-> Qprime.err, inst |-> inst1]
    ELSE IF IsSome(inst1.pubkey) /\ Qprime.val.point = Val(inst1.pubkey).point
    THEN [err |-> "",
          inst |-> [inst1 EXCEPT !.sig =
              Some([Val(inst1.sig) EXCEPT
                       !.compressed = Some(Val(inst1.pubkey).compressed)])]]
    ELSE CalciLoop(inst1, i + 1)
CalciTry(inst1, i, Qprime) ==
    IF Returned(Qprime) /\ IsSome(inst1.pubkey)
       /\ Qprime.val.point = Val(inst1.pubkey).point
    THEN [err |-> "",
          inst |-> [inst1 EXCEPT !.sig =
              Some([Val(inst1.sig) EXCEPT
                       !.compressed = Some(Val(inst1.pubkey).compressed)])]]
    ELSE CalciLoop(inst1, i + 1)
CalciAt(inst1, i) == CalciTry(inst1, i, toPublicKey(inst1))
\* calci leaving the last candidate in sig.i when it gives up
CalciLoopStale(inst, i) ==
    IF i >= 4
    THEN [err |-> "Unable to find valid recovery factor", inst |-> inst]
    ELSE CalciAt(WithI(inst, Some(i)), i)
CalciLoop(inst, i) ==
    IF i >= 4
    THEN [err |-> "Unable to find valid recovery factor", inst |-> WithI(inst, None)]
    ELSE CalciAt(WithI(inst, Some(i)), i)

calci(inst) ==
    IF ~IsSome(inst.sig) THEN [err |-> "TypeError", inst |-> inst]
    ELSE CalciLoop(inst, 0)

\* what a static call returns of the instance it made
SigOf(res) == [err |-> res.err, val |-> res.inst.sig]
VerifiedOf(res) == [err |-> res.err, val |-> res.inst.verified]

\* ECDSA.sign() signing with the instance last used instead of a new one
ECDSA_signShared(hashbuf, privkey, endian) ==
    SigOf(sign(set(ecdsa, [NoObj EXCEPT !.hashbuf = hashbuf,
                                        !.endian = endian,
                                        !.privkey = privkey])))

\* ECDSA.sign(hashbuf, privkey, endian): [err, val], val the signature
ECDSA_sign(hashbuf, privkey, endian) ==
    SigOf(sign(set(NewECDSA, [NoObj EXCEPT !.hashbuf = hashbuf, !.endian = endian,
                                           !.privkey = privkey])))

\* ECDSA.verify(hashbuf, sig, pubkey, endian): [err, val], val the flag verified
ECDSA_verify(hashbuf, sig, pubkey, endian) ==
    VerifiedOf(verify(set(NewECDSA, [NoObj EXCEPT !.hashbuf = hashbuf, !.endian = endian,
                                                  !.sig = sig, !.pubkey = pubkey])))

-----------------------------------------------------------------------------
(* SpecRoundTrip: sign, then verify or recover, for every digest, every    *)
(* private scalar and every endianness.                                    *)

Buffers(len) == [1 .. len -> 0 .. (ByteBase - 1)]
Endians == {None, Some("big"), Some("little")}
PrivateScalars == 1 .. (N - 1)
NoRet == [op |-> "none", err |-> "", sig |-> None, verified |-> None]
NoGhost == [kGiven |-> FALSE, first |-> None]

ArgHashbuf == Some(Buf(args.hashbuf))
ArgPrivkey == PrivateKey(args.d, args.compressed)

RT_Init ==
    /\ pc = "start"
    /\ args \in [hashbuf : Buffers(SIZE), d : PrivateScalars, endian : Endians,
                  compressed : BOOLEAN]
    /\ ecdsa = NewECDSA
    /\ ret = NoRet
    /\ ghost = NoGhost

\* the state after a call: what it returned, and the instance it left
Called(op, err, inst1) ==
    /\ err # "unbounded"
    /\ ecdsa' = inst1
    /\ ret' = [op |-> op, err |-> err, sig |-> inst1.sig, verified |-> inst1.verified]
Returns(op, res, sig) ==
    /\ res.err # "unbounded"
    /\ ret' = [op |-> op, err |-> res.err,
               sig |-> IF op = "ECDSA.sign" THEN res.val ELSE sig,
               verified |-> IF op = "ECDSA.verify" THEN res.val ELSE None]
    /\ UNCHANGED ecdsa
CalledInst(op, res) == Called(op, res.err, res.inst)

\* sig = ECDSA.sign(hashbuf, privkey, endian), remembered as the first
RT_StaticSign ==
    /\ pc = "start"
    /\ Returns("ECDSA.sign", ECDSA_sign(ArgHashbuf, Some(ArgPrivkey), args.endian), None)
    /\ ghost' = [ghost EXCEPT !.first = ret'.sig]
    /\ pc' = "static signed"
    /\ UNCHANGED args

\* ECDSA.verify(hashbuf, sig, privkey.publicKey, endian)
RT_StaticVerify ==
    /\ pc = "static signed"
    /\ ret.err = ""
    /\ Returns("ECDSA.verify",
               ECDSA_verify(ArgHashbuf, ret.sig, Some(publicKey(ArgPrivkey)), args.endian),
               ret.sig)
    /\ pc' = "static verified"
    /\ UNCHANGED << args, ghost >>

\* new ECDSA().set({hashbuf, endian, privkey}).sign()
RT_Sign ==
    /\ pc = "static verified"
    /\ CalledInst("sign", sign(set(NewECDSA, [NoObj EXCEPT !.hashbuf = ArgHashbuf,
                                                           !.endian = args.endian,
                                                           !.privkey = Some(ArgPrivkey)])))
    /\ pc' = "signed"
    /\ UNCHANGED << args, ghost >>

\* new ECDSA().set({hashbuf, endian, privkey}).signRandomK(), randomK()
\* drawing k
RT_SignRandomK ==
    /\ pc = "static verified"
    /\ \E k \in 1..MaxRandomK :
         CalledInst("signRandomK",
                    signRandomK(set(NewECDSA, [NoObj EXCEPT !.hashbuf = ArgHashbuf,
                                                            !.endian = args.endian,
                                                            !.privkey = Some(ArgPrivkey)]), k))
    /\ pc' = "signed"
    /\ UNCHANGED << args, ghost >>

\* calci() on the instance that signed
RT_Calci ==
    /\ pc = "signed"
    /\ ret.err = ""
    /\ CalledInst("calci", calci(ecdsa))
    /\ pc' = "recovered"
    /\ UNCHANGED << args, ghost >>

\* ECDSA.sign(hashbuf, privkey, endian) again, with the same arguments
RT_StaticSignAgain ==
    /\ pc = "recovered"
    /\ Returns("ECDSA.sign", ECDSA_sign(ArgHashbuf, Some(ArgPrivkey), args.endian), None)
    /\ pc' = "static signed again"
    /\ UNCHANGED << args, ghost >>

RT_Next ==
    \/ RT_StaticSign
    \/ RT_StaticVerify
    \/ RT_Sign
    \/ RT_SignRandomK
    \/ RT_Calci
    \/ RT_StaticSignAgain

SpecRoundTrip == RT_Init /\ [][RT_Next]_vars

-----------------------------------------------------------------------------
(* Claims checked under SpecRoundTrip.                                     *)

\* C1: for every private scalar d in (0, N), every digest h and every endian
\* (undefined, 'big', 'little'), ECDSA.sign(h, d, endian) returns a signature
\* and ECDSA.verify(h, that signature, pubkey(d), endian) returns true.
C1_SignThenVerifyIsTrue ==
    /\ pc = "static signed" => ret.err = "" /\ IsSome(ret.sig)
    /\ pc = "static verified" => ret.err = "" /\ ret.verified = Some(TRUE)

\* a little-endian digest whose value differs from its big-endian value and
\* is not below N, signed and verified
C1_Witness ==
    /\ pc = "static verified"
    /\ args.endian = Some("little")
    /\ fromBufferBE(args.hashbuf) # fromBufferBE(reverse(args.hashbuf))
    /\ fromBufferBE(reverse(args.hashbuf)) >= N
    /\ ret.verified = Some(TRUE)

\* the recovery ids whose recovered key has the point of the signer's key
MatchingIds ==
    {i \in 0 .. 3 :
        /\ Returned(toPublicKey(WithI(ecdsa, Some(i))))
        /\ toPublicKey(WithI(ecdsa, Some(i))).val.point = publicKey(ArgPrivkey).point}

\* C4: with a big-endian digest (endian undefined or 'big'), after sign()
\* exactly one recovery id in {0, 1, 2, 3} recovers the signer's point, and
\* calci() returns with sig.i set to that id.
C4_ExactlyOneRecoveryId ==
    args.endian # Some("little") =>
        /\ pc = "signed" => ret.err = "" /\ Cardinality(MatchingIds) = 1
        /\ pc = "recovered" =>
              /\ ret.err = ""
              /\ Cardinality(MatchingIds) = 1
              /\ IsSome(Val(ecdsa.sig).i)
              /\ Val(Val(ecdsa.sig).i) \in MatchingIds

\* C19: recovery reads the digest with the endianness that signing used: on
\* an instance with endian 'little', sign() followed by calci() succeeds and
\* toPublicKey() then returns a key with the point of the signer's key.
C19_RecoveryHonoursEndian ==
    (pc = "recovered" /\ args.endian = Some("little")) =>
        /\ ret.err = ""
        /\ IsSome(Val(ecdsa.sig).i)
        /\ Returned(toPublicKey(ecdsa))
        /\ toPublicKey(ecdsa).val.point = publicKey(ArgPrivkey).point

\* calci() ended on a second-key id (x = r + N) while the first-key
\* candidates x = r recovered points too, which were other points
C4_Witness ==
    /\ pc = "recovered"
    /\ args.endian = None
    /\ ret.err = ""
    /\ Val(ecdsa.sig).i = Some(3)
    /\ Returned(toPublicKey(WithI(ecdsa, Some(0))))
    /\ Returned(toPublicKey(WithI(ecdsa, Some(1))))

RawS == SigS(Val(ecdsa.k), args.d, fromBuffer(args.hashbuf, args.endian))

\* C2: every signature that ECDSA.sign, sign() or signRandomK() returns has
\* s <= floor(N / 2), and its s is N - s' when the s' that _findSignature
\* computed is above floor(N / 2) and s' itself otherwise.
C2_SignaturesAreLowS ==
    /\ (pc \in {"static signed", "signed", "static signed again"} /\ ret.err = "")
          => IsSome(ret.sig) /\ Val(ret.sig).s <= N \div 2
    /\ (pc = "signed" /\ ret.err = "")
          => Val(ecdsa.sig).s = IF RawS > N \div 2 THEN N - RawS ELSE RawS

\* signRandomK() computed floor(N / 2) + 1 and returned floor(N / 2)
C2_Witness ==
    /\ pc = "signed"
    /\ ret.op = "signRandomK"
    /\ ret.err = ""
    /\ RawS = N \div 2 + 1
    /\ Val(ecdsa.sig).s = N \div 2

\* C6: every signature that ECDSA.sign, sign() or signRandomK() returns has
\* 0 < r < N and 0 < s < N: a nonce that gives r = 0 or s = 0 is given up
\* for a further one.
C6_SignaturesAreInRange ==
    (pc \in {"static signed", "signed", "static signed again"} /\ ret.err = "")
        => /\ IsSome(ret.sig)
           /\ Val(ret.sig).r > 0 /\ Val(ret.sig).r < N
           /\ Val(ret.sig).s > 0 /\ Val(ret.sig).s < N

\* sign() found s = 0 with its first nonce and returned a signature made
\* with another
C6_Witness ==
    /\ pc = "signed"
    /\ ret.op = "sign"
    /\ ret.err = ""
    /\ SigS(Val(deterministicK(ecdsa, 0).k), args.d,
            fromBuffer(args.hashbuf, args.endian)) = 0
    /\ Val(ecdsa.k) # Val(deterministicK(ecdsa, 0).k)
    /\ Val(ecdsa.sig).s > 0

-----------------------------------------------------------------------------
(* Spec: one ECDSA instance, used through set, sign, signRandomK, verify   *)
(* and calci in any order.                                                 *)

\* the digests given to set() have their bytes in 0..MaxDigestByte
MaxDigestByte == 1
\* the private keys given to set() have their scalar in 1..MaxScalar
MaxScalar == 2

DigestInputs == [1 .. SIZE -> 0 .. MaxDigestByte]
ScalarInputs == 1 .. MaxScalar

\* the objects given to set()
SetObjs ==
    {[NoObj EXCEPT !.hashbuf = Some(Buf(h))] : h \in DigestInputs}
    \cup {[NoObj EXCEPT !.hashbuf = Some(h)] : h \in {Buf(<< 1 >>), NotBuf(<< 0, 1 >>)}}
    \cup {[NoObj EXCEPT !.endian = Some(e)] : e \in {"big", "little"}}
    \cup {[NoObj EXCEPT !.privkey = Some(PrivateKey(d, TRUE))] : d \in ScalarInputs}
    \cup {[NoObj EXCEPT !.privkey = Some(NoBnKey)]}
    \cup {[NoObj EXCEPT !.k = Some(k)] : k \in (0 .. MaxRandomK) \cup {N + 1}}

Init ==
    /\ pc = "instance"
    /\ args = << >>
    /\ ecdsa = NewECDSA
    /\ ret = NoRet
    /\ ghost = NoGhost

\* ecdsa.set(obj); ghost.kGiven records that a nonce came from outside
Set ==
    /\ pc = "instance"
    /\ \E obj \in SetObjs :
         /\ Called("set", "", set(ecdsa, obj))
         /\ ghost' = [ghost EXCEPT !.kGiven = @ \/ IsSome(obj.k)]
    /\ UNCHANGED << pc, args >>

\* ecdsa.sign()
Sign ==
    /\ pc = "instance"
    /\ CalledInst("sign", sign(ecdsa))
    /\ UNCHANGED << pc, args, ghost >>

\* ecdsa.signRandomK(), randomK() drawing k
SignRandomK ==
    /\ pc = "instance"
    /\ \E k \in 1 .. MaxRandomK : CalledInst("signRandomK", signRandomK(ecdsa, k))
    /\ ghost' = [ghost EXCEPT !.kGiven = TRUE]
    /\ UNCHANGED << pc, args >>

\* ecdsa.verify()
Verify ==
    /\ pc = "instance"
    /\ CalledInst("verify", verify(ecdsa))
    /\ UNCHANGED << pc, args, ghost >>

\* ecdsa.calci()
Calci ==
    /\ pc = "instance"
    /\ CalledInst("calci", calci(ecdsa))
    /\ UNCHANGED << pc, args, ghost >>

Next == Set \/ Sign \/ SignRandomK \/ Verify \/ Calci

Spec == Init /\ [][Next]_vars

-----------------------------------------------------------------------------
(* Claims checked under Spec.                                              *)

\* C7: on an instance that was given no nonce (no set({k}), no randomK()),
\* a sign() that returns leaves a signature with the r and s of the one
\* ECDSA.sign(hashbuf, privkey, endian) returns for the instance's current
\* hashbuf, privkey and endian.
C7_SignEqualsFreshSign ==
    (pc = "instance" /\ ret.op = "sign" /\ ret.err = "" /\ ~ghost.kGiven)
        => /\ Returned(ECDSA_sign(ecdsa.hashbuf, ecdsa.privkey, ecdsa.endian))
           /\ Val(ecdsa.sig).r = Val(ECDSA_sign(ecdsa.hashbuf, ecdsa.privkey, ecdsa.endian).val).r
           /\ Val(ecdsa.sig).s = Val(ECDSA_sign(ecdsa.hashbuf, ecdsa.privkey, ecdsa.endian).val).s

\* C18: every nonce with which sign() computes (r, s) is in (0, N): this.k
\* as deterministicK() and randomK() leave it, and a k given through set()
\* is not used by sign() unless it is in (0, N).
C18_SignUsesNonceInRange ==
    (pc = "instance" /\ ret.op \in {"sign", "signRandomK"} /\ ret.err = "")
        => /\ IsSome(ecdsa.k)
           /\ 0 < Val(ecdsa.k)
           /\ Val(ecdsa.k) < N

\* C23: the flag verified is never stale: in every state that set (without a
\* verified field), sign, signRandomK, calci and verify reach, verified true
\* implies that sigError() returns false for the instance's current sig,
\* hashbuf, endian and pubkey.
C23_VerifiedIsNeverStale ==
    (pc = "instance" /\ ecdsa.verified = Some(TRUE))
        => Returned(sigError(ecdsa)) /\ sigError(ecdsa).val = ""

\* C11: sign() throws the InvalidState error of checkState, and no other
\* error, when hashbuf is absent, hashbuf is no buffer of 32 bytes, privkey
\* is absent or privkey has no bn.
C11_SignFailsWithInvalidState ==
    (/\ pc = "instance"
     /\ ret.op = "sign"
     /\ \/ ~IsBuffer32(ecdsa.hashbuf)
        \/ ~IsSome(ecdsa.privkey)
        \/ ~Val(ecdsa.privkey).hasBn)
        => ret.err = "InvalidState"

-----------------------------------------------------------------------------
(* SpecVerify: verify() and ECDSA.verify on every pair (r, s) around the   *)
(* range (0, N), with digests that are and are not 32-byte buffers.        *)

\* r and s are drawn from -RangeMargin .. N + RangeMargin
RangeMargin == 1

VerifyHashbufs ==
    {Some(Buf(h)) : h \in DigestInputs}
    \cup {None, Some(NotBuf(<< 0, 1 >>)), Some(Buf(<< 1 >>)), Some(Buf(<< 0, 0, 1 >>))}
VerifyScalars == (0 - RangeMargin) .. (N + RangeMargin)

V_Init ==
    /\ pc = "verify start"
    /\ args \in [hashbuf : VerifyHashbufs, r : VerifyScalars, s : VerifyScalars,
                  d : ScalarInputs, endian : Endians]
    /\ ecdsa = NewECDSA
    /\ ret = NoRet
    /\ ghost = NoGhost

ArgSig == Some(Signature(args.r, args.s, None))
ArgPubkey == Some(publicKey(PrivateKey(args.d, TRUE)))

\* new ECDSA().set({hashbuf, endian, sig, pubkey})
ArgInstance == set(NewECDSA, [NoObj EXCEPT !.hashbuf = args.hashbuf,
                                           !.endian = args.endian,
                                           !.sig = ArgSig,
                                           !.pubkey = ArgPubkey])

\* new ECDSA().set({hashbuf, endian, sig, pubkey}).verify()
V_Verify ==
    /\ pc = "verify start"
    /\ CalledInst("verify", verify(ArgInstance))
    /\ pc' = "verified"
    /\ UNCHANGED << args, ghost >>

\* ECDSA.verify(hashbuf, sig, pubkey, endian)
V_StaticVerify ==
    /\ pc = "verify start"
    /\ Returns("ECDSA.verify", ECDSA_verify(args.hashbuf, ArgSig, ArgPubkey, args.endian),
               ArgSig)
    /\ pc' = "static verify returned"
    /\ UNCHANGED << args, ghost >>

\* new ECDSA().set({hashbuf, endian, sig, pubkey}).calci()
V_Calci ==
    /\ pc = "verify start"
    /\ CalledInst("calci", calci(ArgInstance))
    /\ pc' = "calci returned"
    /\ UNCHANGED << args, ghost >>

V_Next == V_Verify \/ V_StaticVerify \/ V_Calci

SpecVerify == V_Init /\ [][V_Next]_vars

-----------------------------------------------------------------------------
(* Claims checked under SpecVerify.                                        *)

ArgsInRange == args.r > 0 /\ args.r < N /\ args.s > 0 /\ args.s < N
\* the point P = u1*G + u2*Q, u1 = s^-1 * e mod N, u2 = s^-1 * r mod N
ArgsPoint ==
    PointAdd(PointMul(getG, (invm(args.s) * fromBuffer(Val(args.hashbuf).bytes, args.endian)) % N),
             PointMul(Val(ArgPubkey).point, (invm(args.s) * args.r) % N))
ArgsAccepted ==
    /\ IsBuffer32(args.hashbuf)
    /\ ArgsInRange
    /\ ~ArgsPoint.inf
    /\ ArgsPoint.x % N = args.r

\* C5: verify() returns with verified true when hashbuf is a 32-byte buffer,
\* 0 < r < N, 0 < s < N, P = u1*G + u2*Q is not the point at infinity and
\* P.x mod N = r, and with verified false in every other case.
C5_VerifiedIffAccepted ==
    pc = "verified" => ret.err = "" /\ ecdsa.verified = Some(ArgsAccepted)

\* a little-endian digest with a signature whose s is in the high half,
\* verified true
C5_Witness ==
    /\ pc = "verified"
    /\ args.endian = Some("little")
    /\ IsBuffer32(args.hashbuf)
    /\ fromBufferBE(Val(args.hashbuf).bytes) # fromBuffer(Val(args.hashbuf).bytes, args.endian)
    /\ args.s > N \div 2
    /\ ecdsa.verified = Some(TRUE)

\* ECDSA.verify(hashbuf, (r, N - s), pubkey, endian) for the call's arguments
MirroredVerify ==
    ECDSA_verify(args.hashbuf, Some(Signature(args.r, N - args.s, None)), ArgPubkey,
                 args.endian)

\* C21: low-S is not enforced on verification: for a 32-byte digest h, a
\* public key Q and r, s in (0, N), ECDSA.verify(h, (r, s), Q) and
\* ECDSA.verify(h, (r, N - s), Q) return the same boolean.
C21_VerifyIgnoresLowS ==
    (pc = "static verify returned" /\ IsBuffer32(args.hashbuf) /\ ArgsInRange)
        => /\ ret.err = ""
           /\ Returned(MirroredVerify)
           /\ ret.verified = MirroredVerify.val

\* a signature with s in the high half verified as true
C21_Witness ==
    /\ pc = "static verify returned"
    /\ IsBuffer32(args.hashbuf)
    /\ ArgsInRange
    /\ args.s > LowSBound
    /\ ret.verified = Some(TRUE)
    /\ MirroredVerify.val = Some(TRUE)

\* C10: ECDSA.verify returns false, and throws nothing, when hashbuf is not a
\* 32-byte buffer or r or s is outside (0, N).
C10_VerifyReturnsFalse ==
    (pc = "static verify returned" /\ (~IsBuffer32(args.hashbuf) \/ ~ArgsInRange))
        => ret.err = "" /\ ret.verified = Some(FALSE)

\* s = 0 with a 32-byte digest and r in range: false is returned
C10_Witness ==
    /\ pc = "static verify returned"
    /\ IsBuffer32(args.hashbuf)
    /\ args.r > 0 /\ args.r < N
    /\ args.s = 0
    /\ ret.err = ""
    /\ ret.verified = Some(FALSE)

-----------------------------------------------------------------------------
(* SpecKey: one PublicKey built by the constructor or a factory, exported  *)
(* with toDER or toString and imported again.                              *)

\* the byte strings given as DER: every prefix with SIZE bytes, a compressed
\* prefix with SIZE + 1 bytes, an uncompressed or hybrid one with 2 * SIZE
DerBuffers ==
    {<< >>}
    \cup {<< p >> : p \in {0, 2, 3, 4, 6, 7}}
    \cup {<< p >> \o b : p \in {0, 2, 3, 4, 6, 7}, b \in Buffers(SIZE)}
    \cup {<< p >> \o b : p \in {2, 3}, b \in Buffers(SIZE + 1)}
    \cup {<< p >> \o b : p \in {4, 6}, b \in Buffers(2 * SIZE)}
\* the texts given as DER: the digits of a byte string, or with another
\* character in them
DerStrings ==
    {toHex(b) : b \in DerBuffers}
    \cup {toHex(<< p >> \o b) \o << "g" >> : p \in {2, 3}, b \in Buffers(SIZE)}

KeyCall(factory, data, extra, strict) ==
    [factory |-> factory, data |-> data, extra |-> extra, strict |-> strict]

\* every pair of field elements, on the curve or not, and infinity
FromPointCalls ==
    {KeyCall("fromPoint", Data("Point", p), Extra(c, None), None) :
        p \in {Pt(x, y) : x \in 0 .. (FieldP - 1), y \in 0 .. (FieldP - 1)} \cup {Inf},
        c \in {None, Some(TRUE), Some(FALSE)}}
FromBufferCalls ==
    {KeyCall("fromBuffer", Data("Buffer", b), Extra(None, None), strict) :
        b \in DerBuffers, strict \in {None, Some(FALSE)}}
FromStringCalls ==
    {KeyCall(f, Data("string", str), Extra(None, None), None) :
        f \in {"fromString", "new PublicKey"}, str \in DerStrings}
FromXCalls ==
    {KeyCall("fromX", Data("X", [odd |-> odd, x |-> x]), Extra(None, None), None) :
        odd \in BOOLEAN, x \in 0 .. (FieldP + N)}
FromPrivateKeyCalls ==
    {KeyCall(f, Data("PrivateKey", [bn |-> d, compressed |-> c, network |-> n]),
             Extra(None, None), None) :
        f \in {"fromPrivateKey", "new PublicKey"},
        d \in PrivateScalars, c \in BOOLEAN, n \in {DefaultNetwork, "testnet"}}
NewFromPointCalls ==
    {KeyCall("new PublicKey", Data("Point", p), Extra(c, n), None) :
        p \in CurvePoints \cup {Inf, Pt(0, 0)}, c \in {None, Some(TRUE), Some(FALSE)}, n \in {None, Some("testnet")}}
NewFromObjectCalls ==
    {KeyCall("new PublicKey",
             Data("object", [x |-> x, y |-> y, compressed |-> c]), Extra(None, None), None) :
        x \in {toHex(toBuffer(n)) : n \in 0 .. (FieldP - 1)} \cup {<< >>},
        y \in {toHex(toBuffer(n)) : n \in 0 .. (FieldP - 1)},
        c \in {None, Some(FALSE)}}
NewFromBufferCalls ==
    {KeyCall("new PublicKey", Data("Buffer", b), Extra(None, None), None) : b \in DerBuffers}
NewFromPublicKeyCalls ==
    {KeyCall("new PublicKey",
             Data("PublicKey", [point |-> p, compressed |-> c, network |-> DefaultNetwork]),
             Extra(None, None), None) :
        p \in CurvePoints, c \in BOOLEAN}
NewFromOtherCalls ==
    {KeyCall("new PublicKey", Data(t, 0), Extra(None, None), None) : t \in {"undefined", "number"}}
\* toPublicKey() on an instance with a digest and a signature (r, s, i)
ToPublicKeyCalls ==
    {KeyCall("toPublicKey",
             Data("ECDSA", [NewECDSA EXCEPT
                               !.hashbuf = Some(Buf(h)),
                               !.sig = Some([Signature(r, sg, None) EXCEPT !.i = i])]),
             Extra(None, None), None) :
        h \in DigestInputs, r \in 0 .. N, sg \in 0 .. N,
        i \in {None} \cup {Some(j) : j \in (0 - 1) .. 4}}

NoKeyRet ==
    [op |-> "none", err |-> "", key |-> NoPubKey, der |-> << >>, str |-> << >>,
     json |-> [x |-> << >>, y |-> << >>, compressed |-> None], exported |-> NoPubKey]

K_Init ==
    /\ pc = "key start"
    /\ \/ args \in FromPointCalls
       \/ args \in FromBufferCalls
       \/ args \in FromStringCalls
       \/ args \in FromXCalls
       \/ args \in FromPrivateKeyCalls
       \/ args \in NewFromPointCalls
       \/ args \in NewFromObjectCalls
       \/ args \in NewFromBufferCalls
       \/ args \in NewFromPublicKeyCalls
       \/ args \in NewFromOtherCalls
       \/ args \in ToPublicKeyCalls
    /\ ecdsa = NewECDSA
    /\ ret = NoKeyRet
    /\ ghost = NoGhost

\* the call that args describes: [err, val], val the PublicKey
KeyOf(call) ==
    IF call.factory = "fromPoint" THEN PublicKey_fromPoint(call.data.v, call.extra.compressed)
    ELSE IF call.factory = "fromBuffer" THEN PublicKey_fromBuffer(call.data.v, call.strict)
    ELSE IF call.factory = "fromString" THEN PublicKey_fromString(call.data.v)
    ELSE IF call.factory = "fromX" THEN PublicKey_fromX(call.data.v.odd, call.data.v.x)
    ELSE IF call.factory = "fromPrivateKey" THEN PublicKey_fromPrivateKey(call.data.v)
    ELSE IF call.factory = "toPublicKey" THEN toPublicKey(call.data.v)
    ELSE PublicKey(call.data, call.extra)

KeyReturned(op, res) ==
    ret' = [ret EXCEPT !.op = op, !.err = res.err, !.key = res.val]

\* the constructor or the factory is called
K_Construct ==
    /\ pc = "key start"
    /\ KeyReturned(args.factory, KeyOf(args))
    /\ pc' = "constructed"
    /\ UNCHANGED << args, ecdsa, ghost >>

\* der = pk.toDER()
K_ToDER ==
    /\ pc = "constructed"
    /\ ret.err = ""
    /\ ret' = [ret EXCEPT !.op = "toDER", !.der = toDER(ret.key), !.exported = ret.key]
    /\ pc' = "der"
    /\ UNCHANGED << args, ecdsa, ghost >>

\* str = pk.toString()
K_ToString ==
    /\ pc = "constructed"
    /\ ret.err = ""
    /\ ret' = [ret EXCEPT !.op = "toString", !.str = PublicKey_toString(ret.key),
                          !.exported = ret.key]
    /\ pc' = "str"
    /\ UNCHANGED << args, ecdsa, ghost >>

\* PublicKey.fromBuffer(der)
K_FromBuffer ==
    /\ pc = "der"
    /\ KeyReturned("fromBuffer", PublicKey_fromBuffer(ret.der, None))
    /\ pc' = "from der"
    /\ UNCHANGED << args, ecdsa, ghost >>

\* PublicKey.fromString(str)
K_FromString ==
    /\ pc = "str"
    /\ KeyReturned("fromString", PublicKey_fromString(ret.str))
    /\ pc' = "from str"
    /\ UNCHANGED << args, ecdsa, ghost >>

\* json = pk.toJSON()
K_ToJSON ==
    /\ pc = "constructed"
    /\ ret.err = ""
    /\ ret' = [ret EXCEPT !.op = "toJSON", !.json = toJSON(ret.key), !.exported = ret.key]
    /\ pc' = "json"
    /\ UNCHANGED << args, ecdsa, ghost >>

\* new PublicKey(pk)
K_Copy ==
    /\ pc = "constructed"
    /\ ret.err = ""
    /\ ret' = [ret EXCEPT !.op = "new PublicKey(pk)", !.exported = ret.key,
                          !.key = PublicKey(Data("PublicKey", ret.key), Extra(None, None)).val]
    /\ pc' = "copied"
    /\ UNCHANGED << args, ecdsa, ghost >>

\* pk.point = v, pk.compressed = v or pk.network = v, with a value v other
\* than the one the key holds
K_Assign ==
    /\ pc = "constructed"
    /\ ret.err = ""
    /\ \E strictMode \in BOOLEAN, field \in {"point", "compressed", "network"} :
          LET value == IF field = "point" THEN Inf
                       ELSE IF field = "compressed" THEN ~ret.key.compressed
                       ELSE IF ret.key.network = "testnet" THEN "livenet" ELSE "testnet"
              res == Assigned(ret.key, field, value, strictMode)
          IN  ret' = [ret EXCEPT !.op = "pk." \o field \o " = v", !.err = res.err,
                                 !.key = res.val, !.exported = ret.key]
    /\ pc' = "assigned"
    /\ UNCHANGED << args, ecdsa, ghost >>

K_Next ==
    \/ K_Construct \/ K_ToDER \/ K_ToString \/ K_FromBuffer \/ K_FromString
    \/ K_ToJSON \/ K_Copy \/ K_Assign

SpecKey == K_Init /\ [][K_Next]_vars

-----------------------------------------------------------------------------
(* Claims checked under SpecKey.                                           *)

\* the point that the call's argument gives directly, when it gives one
ArgPointGiven ==
    \/ args.data.type = "Point"
    \/ args.factory = "fromBuffer" /\ Len(args.data.v) = 1 + 2 * SIZE
                                   /\ args.data.v[1] \in {4, 6}
ArgPoint ==
    IF args.data.type = "Point" THEN args.data.v
    ELSE Pt(fromBufferBE(slice(args.data.v, 1, 1 + SIZE)),
            fromBufferBE(slice(args.data.v, 1 + SIZE, 1 + 2 * SIZE)))

\* C8: every PublicKey that the constructor, fromPoint, fromBuffer,
\* fromString, fromX, fromPrivateKey, the {x, y} form or toPublicKey returns
\* holds a point that validate() accepts, and a call whose argument gives a
\* point that validate() rejects throws.
C8_KeysHoldValidatedPoints ==
    /\ (pc \in {"constructed", "from der", "from str"} /\ ret.err = "")
          => validate(ret.key.point)
    /\ (pc = "constructed" /\ ArgPointGiven /\ ~validate(ArgPoint)) => ret.err # ""

\* toPublicKey() returned a recovered key
C8_Witness ==
    /\ pc = "constructed"
    /\ args.factory = "toPublicKey"
    /\ ret.err = ""
    /\ validate(ret.key.point)

\* C9: PublicKey.fromBuffer(pk.toDER()) and PublicKey.fromString(pk.toString())
\* return a key with the point and the compressed flag of pk.
C9_ExportThenImport ==
    pc \in {"from der", "from str"}
        => /\ ret.err = ""
           /\ ret.key.point = ret.exported.point
           /\ ret.key.compressed = ret.exported.compressed

\* a compressed key with an even x and an odd y, exported as text and imported
C9_Witness ==
    /\ pc = "from str"
    /\ ret.exported.compressed
    /\ ret.exported.point.x % 2 = 0
    /\ ret.exported.point.y % 2 = 1
    /\ ret.key.point = ret.exported.point

\* the signature that toPublicKey() is called with, and its candidates x and R
CallSig == Val(args.data.v.sig)
CallX == IF Val(CallSig.i) \div 2 = 1 THEN CallSig.r + N ELSE CallSig.r
CallR == fromX(Val(CallSig.i) % 2 = 1, CallX)

\* C12: toPublicKey() returns a key only when sig.i is 0, 1, 2 or 3, a point
\* R exists at x = r (i < 2) or x = r + N (i >= 2) with the y-parity i & 1,
\* and N*R is the point at infinity; with sig.i undefined, -1 or 4 it throws
\* the error of its argument check, and with N*R not at infinity it throws.
C12_RecoversOnlyForValidIds ==
    (pc = "constructed" /\ args.factory = "toPublicKey") =>
        /\ ret.err = "" =>
              /\ CallSig.i \in {Some(0), Some(1), Some(2), Some(3)}
              /\ HasPointAtX(CallX)
              /\ PointMul(CallR, N).inf
        /\ CallSig.i \notin {Some(0), Some(1), Some(2), Some(3)}
              => ret.err = "i must be equal to 0, 1, 2, or 3"
        /\ (/\ CallSig.i \in {Some(0), Some(1), Some(2), Some(3)}
            /\ HasPointAtX(CallX)
            /\ ~PointMul(CallR, N).inf) => ret.err # ""

\* a key recovered with the id 3, from the point at x = r + N with an odd y
C12_Witness ==
    /\ pc = "constructed"
    /\ args.factory = "toPublicKey"
    /\ CallSig.i = Some(3)
    /\ ret.err = ""
    /\ CallR.x = CallSig.r + N
    /\ CallR.y % 2 = 1


-----------------------------------------------------------------------------
(* calci() on an instance holding any signature, under SpecVerify.         *)

\* what toPublicKey() gives for the candidate i of the call's signature
CandidateKey(i) == toPublicKey(WithI(ArgInstance, Some(i)))
\* the candidates whose recovered point is the point of the public key
CandidatesMatching ==
    {i \in 0 .. 3 : /\ Returned(CandidateKey(i))
                    /\ CandidateKey(i).val.point = Val(ArgPubkey).point}
\* the candidates at which toPublicKey() throws
CandidatesThrowing == {i \in 0 .. 3 : ~Returned(CandidateKey(i))}

\* C13: calci() tries the recovery ids in the order 0, 1, 2, 3 and stops at
\* the first one whose recovered point is the point of pubkey: it ends with
\* sig.i equal to that id and sig.compressed equal to pubkey.compressed.
\* When no id matches it throws 'Unable to find valid recovery factor' and
\* ends with sig.i undefined, never with the last candidate left in it.
C13_CalciFindsFirstMatchingId ==
    pc = "calci returned" =>
        /\ \A i \in CandidatesMatching :
               (\A j \in CandidatesMatching : i <= j) =>
                   /\ ret.err = ""
                   /\ Val(ecdsa.sig).i = Some(i)
                   /\ Val(ecdsa.sig).compressed = Some(Val(ArgPubkey).compressed)
        /\ CandidatesMatching = {} =>
               /\ ret.err = "Unable to find valid recovery factor"
               /\ Val(ecdsa.sig).i = None

\* calci() gave up on a signature of which some candidate was recovered, to
\* a point other than the one of the public key
C13_Witness ==
    /\ pc = "calci returned"
    /\ ret.err = "Unable to find valid recovery factor"
    /\ Val(ecdsa.sig).i = None
    /\ CandidatesMatching = {}
    /\ CandidatesThrowing # 0 .. 3

CallBytes == IF args.data.type = "string" THEN fromHex(args.data.v) ELSE args.data.v

\* C20: in strict mode (fromBuffer without strict, fromString, new PublicKey
\* of a buffer or a hex string) a byte string is accepted only if it is
\* exactly 65 bytes starting with 0x04 or exactly 33 bytes starting with 0x02
\* or 0x03; every other byte string is rejected and no PublicKey is
\* returned.
C20_StrictDerShapes ==
    (/\ pc = "constructed"
     /\ args.data.type \in {"string", "Buffer"}
     /\ args.strict = None
     /\ ~ \/ Len(CallBytes) = 1 + 2 * SIZE /\ CallBytes[1] = 4
          \/ Len(CallBytes) = 1 + SIZE /\ CallBytes[1] \in {2, 3})
        => ret.err # ""

-----------------------------------------------------------------------------
(* Base58Check: encoding/base58check.js and encoding/base58.js, exercised  *)
(* by src/test/encoding/base58check.js.  A string is the sequence of the   *)
(* alphabet indices of its characters (index 0 is the character '1'); the  *)
(* alphabet is scaled down to AlphabetSize characters, and the checksum is *)
(* the first 4 bytes of a hash without collisions on the buffers checked.  *)

AlphabetSize == 5
MaxPayload == 2

RECURSIVE LeadingZeros(_)
LeadingZeros(seq) ==
    IF seq = << >> \/ Head(seq) # 0 THEN 0 ELSE 1 + LeadingZeros(Tail(seq))

\* the digits of n in the base, most significant first; none for 0
RECURSIVE ToBase(_, _)
ToBase(n, base) == IF n = 0 THEN << >> ELSE Append(ToBase(n \div base, base), n % base)

\* the value of the digits in the base
RECURSIVE FromBase(_, _)
FromBase(seq, base) ==
    IF seq = << >> THEN 0
    ELSE FromBase(SubSeq(seq, 1, Len(seq) - 1), base) * base + seq[Len(seq)]

\* Base58.encode(buf): one '1' for every leading zero byte, then the digits
Base58_encode(buf) ==
    [j \in 1 .. LeadingZeros(buf) |-> 0] \o ToBase(FromBase(buf, ByteBase), AlphabetSize)

\* Base58.decode() forgetting the leading '1' characters
Base58_decodeWithoutLeadingOnes(str) == ToBase(FromBase(str, AlphabetSize), ByteBase)
\* Base58.decode(str): one zero byte for every leading '1', then the bytes
Base58_decode(str) ==
    [j \in 1 .. LeadingZeros(str) |-> 0] \o ToBase(FromBase(str, AlphabetSize), ByteBase)

\* Base58Check.checksum(buf) = sha256sha256(buf).slice(0, 4)
checksum(buf) ==
    LET h == (FromBase(<< 1 >> \o buf, ByteBase) * 11 + 5) % Pow(ByteBase, 4)
    IN  [j \in 1 .. 4 |-> (h \div Pow(ByteBase, 4 - j)) % ByteBase]

\* Base58Check.encode(buf)
Base58Check_encode(buf) == Base58_encode(buf \o checksum(buf))

\* the end of Base58Check.decode(), from the decoded bytes on
Checked(buf) ==
    IF Len(buf) < 4 THEN Threw("Input string too short", << >>)
    ELSE IF SubSeq(buf, Len(buf) - 3, Len(buf)) # checksum(SubSeq(buf, 1, Len(buf) - 4))
    THEN Threw("Checksum mismatch", << >>)
    ELSE Ret(SubSeq(buf, 1, Len(buf) - 4))

\* Base58Check.decode(s)
Base58Check_decode(str) == Checked(Base58_decode(str))

\* Base58Check.validChecksum(data) for a string: the last 4 bytes against
\* the checksum of the bytes before them; fewer than 4 bytes never match
Base58Check_validChecksum(str) ==
    LET buf == Base58_decode(str)
    IN  IF Len(buf) < 4 THEN FALSE
        ELSE SubSeq(buf, Len(buf) - 3, Len(buf)) = checksum(SubSeq(buf, 1, Len(buf) - 4))

\* Base58Check(buf).toString(): the constructor keeps the buffer in this.buf
\* and toString() encodes this.buf
Base58Check_toString(buf) == Base58Check_encode(buf)
\* Base58Check(str).toBuffer(): the constructor keeps the decoding of the
\* string in this.buf and toBuffer() returns this.buf
Base58Check_toBuffer(str) == Base58Check_decode(str)

NoB58Ret == [op |-> "none", err |-> "", enc |-> << >>, buf |-> << >>, valid |-> None]

B_Init ==
    /\ pc = "b58 start"
    /\ args \in {[buf |-> b] : b \in UNION {Buffers(len) : len \in 0 .. MaxPayload}}
    /\ ecdsa = NewECDSA
    /\ ret = NoB58Ret
    /\ ghost = NoGhost

\* enc = Base58Check.encode(buf), or enc = Base58Check(buf).toString()
B_Encode ==
    /\ pc = "b58 start"
    /\ \/ ret' = [ret EXCEPT !.op = "encode", !.enc = Base58Check_encode(args.buf)]
       \/ ret' = [ret EXCEPT !.op = "toString", !.enc = Base58Check_toString(args.buf)]
    /\ pc' = "encoded"
    /\ UNCHANGED << args, ecdsa, ghost >>

\* buf2 = Base58.decode(enc); buf2[j] += delta; enc2 = Base58.encode(buf2),
\* for a byte j of the payload
B_Alter ==
    /\ pc = "encoded"
    /\ \E j \in 1 .. Len(args.buf), delta \in 1 .. (ByteBase - 1) :
          ret' = [ret EXCEPT !.op = "alter",
                     !.enc = Base58_encode([Base58_decode(ret.enc) EXCEPT
                                               ![j] = (@ + delta) % ByteBase])]
    /\ pc' = "altered"
    /\ UNCHANGED << args, ecdsa, ghost >>

\* Base58Check.decode(enc), or Base58Check(enc).toBuffer()
B_Decode ==
    /\ pc \in {"encoded", "altered"}
    /\ \/ ret' = [ret EXCEPT !.op = "decode", !.err = Base58Check_decode(ret.enc).err,
                              !.buf = Base58Check_decode(ret.enc).val]
       \/ ret' = [ret EXCEPT !.op = "toBuffer", !.err = Base58Check_toBuffer(ret.enc).err,
                              !.buf = Base58Check_toBuffer(ret.enc).val]
    /\ pc' = IF pc = "encoded" THEN "decoded" ELSE "altered decoded"
    /\ UNCHANGED << args, ecdsa, ghost >>

\* Base58Check.validChecksum(enc)
B_ValidChecksum ==
    /\ pc \in {"encoded", "altered"}
    /\ ret' = [ret EXCEPT !.op = "validChecksum",
                          !.valid = Some(Base58Check_validChecksum(ret.enc))]
    /\ pc' = IF pc = "encoded" THEN "checked" ELSE "altered checked"
    /\ UNCHANGED << args, ecdsa, ghost >>

B_Next == B_Encode \/ B_Alter \/ B_Decode \/ B_ValidChecksum

SpecBase58 == B_Init /\ [][B_Next]_vars

-----------------------------------------------------------------------------
(* SpecFind: the do-while loop of _findSignature, one round at a time, on  *)
(* the instance that ECDSA.sign() makes: ghost keeps the loop's counter    *)
(* badrs and the nonces the rounds have computed (r, s) with.              *)

F_Init ==
    /\ pc = "find start"
    /\ args \in [hashbuf : Buffers(SIZE), d : PrivateScalars, endian : {"big", "little"}]
    /\ ecdsa = set(NewECDSA, [NoObj EXCEPT !.hashbuf = Some(Buf(args.hashbuf)),
                                           !.endian = Some(args.endian),
                                           !.privkey = Some(PrivateKey(args.d, TRUE))])
    /\ ret = NoRet
    /\ ghost = [badrs |-> 0, tried |-> << >>]

\* the body of the loop with the instance as deterministicK left it, and the
\* while condition
F_RoundWith(inst1, k, d, e) ==
    /\ k # 0 - 1
    /\ ecdsa' = inst1
    /\ ghost' = [badrs |-> ghost.badrs + 1, tried |-> Append(ghost.tried, k)]
    /\ ret' = [ret EXCEPT !.op = "_findSignature",
                          !.sig = Some(Signature(SigR(k), SigS(k, d, e), None))]
    /\ pc' = IF SigR(k) <= 0 \/ SigS(k, d, e) <= 0 THEN "finding" ELSE "found"

F_RoundOn(inst1) ==
    F_RoundWith(inst1, Val(inst1.k), args.d, fromBuffer(args.hashbuf, Some(args.endian)))

\* one round of the loop
F_Round ==
    /\ pc \in {"find start", "finding"}
    /\ ghost.badrs < MaxBadrs
    /\ F_RoundOn(IF ~IsSome(ecdsa.k) \/ ghost.badrs > 0
                 THEN deterministicK(ecdsa, ghost.badrs) ELSE ecdsa)
    /\ UNCHANGED args

\* the loop is left: s = ECDSA.toLowS(s)
F_Return ==
    /\ pc = "found"
    /\ ret' = [ret EXCEPT !.sig = Some([Val(ret.sig) EXCEPT !.s = toLowS(@)])]
    /\ pc' = "returned"
    /\ UNCHANGED << args, ecdsa, ghost >>

F_Next == F_Round \/ F_Return

SpecFind == F_Init /\ [][F_Next]_vars

\* C17: when a nonce gives r = 0 or s = 0 the counter badrs goes up by one
\* and the next round uses another nonce, later in the ratchet sequence: no
\* nonce that failed is used by a later round.
C17_FailedNonceIsNeverRetried ==
    pc \in {"finding", "found", "returned"} =>
        /\ ghost.badrs = Len(ghost.tried)
        /\ \A i, j \in 1 .. Len(ghost.tried) : i # j => ghost.tried[i] # ghost.tried[j]


-----------------------------------------------------------------------------
(* SpecSet: set(obj) after set(obj), for objects that give up to MaxGiven  *)
(* of the seven fields; args is the object of the last call and ghost the  *)
(* instance as it was before that call.                                    *)

MaxGiven == 2

S_Init ==
    /\ pc = "new"
    /\ args = NoObj
    /\ ecdsa = NewECDSA
    /\ ret = NoRet
    /\ ghost = [before |-> NewECDSA]

\* ecdsa.set(obj)
S_Set ==
    /\ \E hashbuf \in {None, Some(Buf(toBuffer(1)))},
          endian \in {None, Some("little")},
          privkey \in {None} \cup {Some(PrivateKey(d, TRUE)) : d \in ScalarInputs},
          pubkey \in {None} \cup {Some(publicKey(PrivateKey(d, TRUE))) : d \in ScalarInputs},
          sig \in {None, Some(Signature(1, 1, None))},
          k \in {None, Some(1)},
          verified \in {None, Some(TRUE), Some(FALSE)} :
          /\ Cardinality({j \in 1 .. 7 :
                  IsSome(<< hashbuf, endian, privkey, pubkey, sig, k, verified >>[j])})
                 <= MaxGiven
          /\ args' = [hashbuf |-> hashbuf, endian |-> endian, privkey |-> privkey,
                      pubkey |-> pubkey, sig |-> sig, k |-> k, verified |-> verified]
          /\ Called("set", "", set(ecdsa, args'))
    /\ ghost' = [before |-> ecdsa]
    /\ pc' = "set"

SpecSet == S_Init /\ [][S_Set]_vars

\* C22: set(obj) changes only the fields that obj gives: hashbuf, endian,
\* privkey, sig, k and verified keep their value when obj carries no truthy
\* value for them, and a pubkey stays in place when obj gives neither pubkey
\* nor privkey.
C22_SetChangesOnlyGivenFields ==
    pc = "set" =>
        /\ ~IsSome(args.hashbuf) => ecdsa.hashbuf = ghost.before.hashbuf
        /\ ~IsSome(args.endian) => ecdsa.endian = ghost.before.endian
        /\ ~IsSome(args.privkey) => ecdsa.privkey = ghost.before.privkey
        /\ ~IsSome(args.sig) => ecdsa.sig = ghost.before.sig
        /\ ~IsSome(args.k) => ecdsa.k = ghost.before.k
        /\ args.verified # Some(TRUE) => ecdsa.verified = ghost.before.verified
        /\ (~IsSome(args.pubkey) /\ ~IsSome(args.privkey)) =>
               ecdsa.pubkey = ghost.before.pubkey

=============================================================================
